---- MODULE Spec2Model ----
(***************************************************************************)
(* Model of pdf.py: a batch pipeline that loads traffic_simulation.csv,    *)
(* averages Probability per State over three periods of the day, plots one *)
(* line per State, renders an HTML report and exports it to PDF.           *)
(*                                                                         *)
(* Numbers are exact rationals (num/den in lowest terms).  A cell of the   *)
(* Probability column is a number, a missing value (NaN after read_csv) or *)
(* a string; read_csv leaves every cell of a column a string as soon as    *)
(* one of its cells does not parse as a number.                            *)
(***************************************************************************)
EXTENDS Integers, Sequences, FiniteSets, TLC

VARIABLES
    pc,                 \* statement the script is at
    csv,                \* the input file traffic_simulation.csv
    df,                 \* the loaded DataFrame (sequence of rows)
    early_period,       \* index labels selected at line 11
    rush_hour_period,   \* index labels selected at line 12
    late_period,        \* index labels selected at line 13
    avg_prob_early,     \* State -> mean, line 15
    avg_prob_rush_hour, \* State -> mean, line 16
    avg_prob_late,      \* State -> mean, line 17
    chart,              \* the line series drawn by plt.plot, in drawing order
    html_content,       \* <<>> or <<rendered values>>
    html_file,          \* <<>> or <<content of traffic_simulation_report.html>>
    disk,               \* output files this run has written
    stdout,             \* messages printed
    exportAttempted,    \* pdfkit.from_file has been called
    exc,                \* <<>> or <<e>>, the exception bound at line 111
    err                 \* <<>> or <<the uncaught exception that ended the run>>

vars == <<pc, csv, df, early_period, rush_hour_period, late_period,
          avg_prob_early, avg_prob_rush_hour, avg_prob_late, chart,
          html_content, html_file, disk, stdout, exportAttempted, exc, err>>

----------------------------------------------------------------------------
(* Bounds of the input                                                     *)

MaxRows == 2

Times == {7, 8, 16, 18, 20, 21}

States == {"Light", "Gridlock", "Jam"}

ExportCauses == {"No wkhtmltopdf executable found", "wkhtmltopdf reported an error"}

----------------------------------------------------------------------------
(* Cell values                                                             *)

RECURSIVE GCD(_, _)
GCD(a, b) == IF b = 0 THEN a ELSE GCD(b, a % b)

Float(n, d) ==
    LET g == GCD(n, d)
    IN  [tag |-> "float", num |-> n \div g, den |-> d \div g]

NaN == [tag |-> "nan", num |-> 0, den |-> 1]

\* A cell holding text: the text of the number n/d, or text that is no number.
Text(n, d) == [tag |-> "str", num |-> n, den |-> d]

Junk == Text(0, 0)

Zero == Float(0, 1)

\* Rows with a number in every cell, at every time and under every label
\* (a second number inside each period, so that means are of unequal values);
\* rows with a missing or unparsable Probability inside and outside the periods.
Rows ==
    [Time : Times, State : States, Probability : {Float(1, 5)}]
    \cup [Time : {8, 16, 20}, State : States, Probability : {Float(2, 5)}]
    \cup [Time : {8, 21}, State : {"Light", "Jam"}, Probability : {NaN, Junk}]

Datasets == UNION {[1..n -> Rows] : n \in 0..MaxRows}

ShortDatasets == {d \in Datasets : Len(d) <= 1}

Columns == {"Time", "State", "Probability"}

PlotFile == "traffic_probabilities_plot.png"
HtmlFile == "traffic_simulation_report.html"
PdfFile == "traffic_simulation_report.pdf"

\* The files the script may find as traffic_simulation.csv.
Inputs ==
    {[exists |-> FALSE, cols |-> {}, rows |-> <<>>]}
    \cup {[exists |-> TRUE, cols |-> Columns, rows |-> d] : d \in Datasets}
    \cup {[exists |-> TRUE, cols |-> Columns \ {c}, rows |-> d] :
              c \in Columns, d \in ShortDatasets}

----------------------------------------------------------------------------
(* Step 1: Load the CSV data (line 8)                                      *)

Unparsable(rows) == \E i \in 1..Len(rows) : rows[i].Probability = Junk

\* pd.read_csv: a column parses to numbers only if every cell does;
\* otherwise its cells stay text (empty cells are NaN either way).
ReadCsv(rows) ==
    IF Unparsable(rows)
    THEN [i \in 1..Len(rows) |->
            IF rows[i].Probability.tag = "float"
            THEN [rows[i] EXCEPT !.Probability =
                     Text(rows[i].Probability.num, rows[i].Probability.den)]
            ELSE rows[i]]
    ELSE rows

----------------------------------------------------------------------------
(* Step 2: Data Analysis (lines 11-17)                                     *)

Index(t) == [i \in 1..Len(t) |-> i]

EarlyStart == 8
EarlyEnd == 16
RushStart == 16
RushEnd == 18
LateStart == 18
LateEnd == 20

InEarlyClosed(time) == time >= EarlyStart /\ time <= EarlyEnd

InEarly(time) == time >= EarlyStart /\ time < EarlyEnd

InRushClosed(time) == time >= RushStart /\ time <= RushEnd

InRush(time) == time >= RushStart /\ time < RushEnd

InLate(time) == time >= LateStart /\ time <= LateEnd

EarlyPeriod(t) == SelectSeq(Index(t), LAMBDA i : InEarly(t[i].Time))

RushHourPeriod(t) == SelectSeq(Index(t), LAMBDA i : InRush(t[i].Time))

LatePeriod(t) == SelectSeq(Index(t), LAMBDA i : InLate(t[i].Time))

\* Series.mean(): the values are summed in order, missing values skipped;
\* the mean of no values is NaN.
RECURSIVE SumFrom(_, _, _)
SumFrom(vals, i, acc) ==
    IF i > Len(vals) THEN acc
    ELSE IF vals[i].tag = "nan" THEN SumFrom(vals, i + 1, acc)
    ELSE IF vals[i].tag = "str" THEN [acc EXCEPT !.bad = TRUE]
    ELSE SumFrom(vals, i + 1,
                 [acc EXCEPT !.num = acc.num * vals[i].den + vals[i].num * acc.den,
                             !.den = acc.den * vals[i].den,
                             !.cnt = acc.cnt + 1])

\* Mean, dividing by the number of cells, missing ones included.
MeanCountAll(vals) ==
    LET a == SumFrom(vals, 1, [num |-> 0, den |-> 1, cnt |-> 0, bad |-> FALSE])
    IN  IF a.bad THEN Junk
        ELSE IF a.cnt = 0 THEN NaN
        ELSE Float(a.num, a.den * Len(vals))

\* first() in place of mean(): the first value that is not missing.
MeanFirst(vals) ==
    LET present == SelectSeq(vals, LAMBDA v : v.tag # "nan")
    IN  IF present = <<>> THEN NaN ELSE present[1]

Mean(vals) ==
    LET a == SumFrom(vals, 1, [num |-> 0, den |-> 1, cnt |-> 0, bad |-> FALSE])
    IN  IF a.bad THEN Junk
        ELSE IF a.cnt = 0 THEN NaN
        ELSE Float(a.num, a.den * a.cnt)

Fillna(v, x) == IF v.tag = "nan" THEN x ELSE v

\* The mean of the whole selection under every key (the groupby left out).
GroupMeanUngrouped(t, period) ==
    LET keys == {t[period[j]].State : j \in 1..Len(period)}
        col == [j \in 1..Len(period) |-> t[period[j]].Probability]
        mean == Fillna(Mean(col), Zero)
    IN  [s \in keys |-> mean]

\* period.groupby('State')['Probability'].mean().fillna(0)
GroupMean(t, period) ==
    LET keys == {t[period[j]].State : j \in 1..Len(period)}
    IN  [s \in keys |->
            LET grp == SelectSeq(period, LAMBDA i : t[i].State = s)
                col == [j \in 1..Len(grp) |-> t[grp[j]].Probability]
            IN  Fillna(Mean(col), Zero)]

\* The column is of object dtype as soon as one cell is text.
ObjectColumn(t) == \E i \in 1..Len(t) : t[i].Probability.tag = "str"

\* Some row of the selection holds text, which mean() cannot add up.
TextIn(t, period) ==
    \E j \in 1..Len(period) : t[period[j]].Probability.tag = "str"

\* A validating aggregator: names the kind and the first offending row.
AggregateErrorWithRow(t, kind) ==
    [stage |-> "aggregate", kind |-> "DataFormatError", hasRow |-> TRUE,
     row |-> CHOOSE i \in 1..Len(t) :
                /\ t[i].Probability.tag = "str"
                /\ \A j \in 1..(i - 1) : t[j].Probability.tag # "str"]

\* The exception the group mean raises on an object column.
AggregateError(t, kind) ==
    [stage |-> "aggregate", kind |-> kind, hasRow |-> FALSE, row |-> 0]

----------------------------------------------------------------------------
(* Visualization (lines 20-33)                                             *)

RECURSIVE UniqueFrom(_, _, _)
UniqueFrom(t, i, acc) ==
    IF i > Len(t) THEN acc
    ELSE IF \E j \in 1..Len(acc) : acc[j] = t[i].State
         THEN UniqueFrom(t, i + 1, acc)
         ELSE UniqueFrom(t, i + 1, Append(acc, t[i].State))

Unique(t) == UniqueFrom(t, 1, <<>>)

StateData(t, state) == SelectSeq(Index(t), LAMBDA i : t[i].State = state)

Line(t, state) ==
    LET sd == StateData(t, state)
    IN  [label |-> state,
         x |-> [j \in 1..Len(sd) |-> t[sd[j]].Time],
         y |-> [j \in 1..Len(sd) |-> t[sd[j]].Probability]]

Plot(t) ==
    LET states == Unique(t)
    IN  [k \in 1..Len(states) |-> Line(t, states[k])]

----------------------------------------------------------------------------
(* Render the HTML (lines 86-98)                                           *)

\* os.path.abspath (line 36)
AbsPath(name) == <<"cwd", name>>

Get(series, key, default) ==
    IF key \in DOMAIN series THEN series[key] ELSE default

RenderPeriod(series) ==
    [light |-> Get(series, "Light", Zero),
     heavy |-> Get(series, "Heavy", Zero),
     gridlock |-> Get(series, "Gridlock", Zero)]

\* The rush-hour and late series passed in each other's place.
RenderSwapped(early, rush, late, path) ==
    [early |-> RenderPeriod(early),
     rush_hour |-> RenderPeriod(late),
     late |-> RenderPeriod(rush),
     plot_path |-> path]

Render(early, rush, late, path) ==
    [early |-> RenderPeriod(early),
     rush_hour |-> RenderPeriod(rush),
     late |-> RenderPeriod(late),
     plot_path |-> path]

----------------------------------------------------------------------------
(* The script                                                              *)

Init ==
    /\ pc = "load"
    /\ csv \in Inputs
    /\ df = <<>>
    /\ early_period = <<>>
    /\ rush_hour_period = <<>>
    /\ late_period = <<>>
    /\ avg_prob_early = <<>>
    /\ avg_prob_rush_hour = <<>>
    /\ avg_prob_late = <<>>
    /\ chart = <<>>
    /\ html_content = <<>>
    /\ html_file = <<>>
    /\ disk = {}
    /\ stdout = <<>>
    /\ exportAttempted = FALSE
    /\ exc = <<>>
    /\ err = <<>>

Abort(e) ==
    /\ pc' = "aborted"
    /\ err' = <<e>>

\* line 8, file present
Load ==
    /\ pc = "load"
    /\ csv.exists
    /\ df' = ReadCsv(csv.rows)
    /\ pc' = "select"
    /\ UNCHANGED <<csv, early_period, rush_hour_period, late_period,
                   avg_prob_early, avg_prob_rush_hour, avg_prob_late, chart,
                   html_content, html_file, disk, stdout, exportAttempted, exc, err>>

\* line 8, file absent: read_csv raises
LoadFail ==
    /\ pc = "load"
    /\ ~csv.exists
    /\ Abort([stage |-> "load", kind |-> "FileNotFoundError",
              hasRow |-> FALSE, row |-> 0])
    /\ UNCHANGED <<csv, df, early_period, rush_hour_period, late_period,
                   avg_prob_early, avg_prob_rush_hour, avg_prob_late, chart,
                   html_content, html_file, disk, stdout, exportAttempted, exc>>

\* lines 11-13
Select ==
    /\ pc = "select"
    /\ "Time" \in csv.cols
    /\ early_period' = EarlyPeriod(df)
    /\ rush_hour_period' = RushHourPeriod(df)
    /\ late_period' = LatePeriod(df)
    /\ pc' = "aggregate"
    /\ UNCHANGED <<csv, df, avg_prob_early, avg_prob_rush_hour, avg_prob_late,
                   chart, html_content, html_file, disk, stdout,
                   exportAttempted, exc, err>>

\* line 11, df['Time'] raises KeyError
SelectKeyError ==
    /\ pc = "select"
    /\ "Time" \notin csv.cols
    /\ Abort([stage |-> "select", kind |-> "KeyError",
              hasRow |-> FALSE, row |-> 0])
    /\ UNCHANGED <<csv, df, early_period, rush_hour_period, late_period,
                   avg_prob_early, avg_prob_rush_hour, avg_prob_late, chart,
                   html_content, html_file, disk, stdout, exportAttempted, exc>>

\* lines 15-17, the three means computable
Aggregate ==
    /\ pc = "aggregate"
    /\ csv.cols = Columns
    /\ ~TextIn(df, early_period)
    /\ ~TextIn(df, rush_hour_period)
    /\ ~TextIn(df, late_period)
    /\ avg_prob_early' = GroupMean(df, early_period)
    /\ avg_prob_rush_hour' = GroupMean(df, rush_hour_period)
    /\ avg_prob_late' = GroupMean(df, late_period)
    /\ pc' = "plot"
    /\ UNCHANGED <<csv, df, early_period, rush_hour_period, late_period, chart,
                   html_content, html_file, disk, stdout, exportAttempted,
                   exc, err>>

\* line 15, groupby('State') or ['Probability'] raises KeyError
AggregateKeyError ==
    /\ pc = "aggregate"
    /\ csv.cols # Columns
    /\ Abort([stage |-> "aggregate", kind |-> "KeyError",
              hasRow |-> FALSE, row |-> 0])
    /\ UNCHANGED <<csv, df, early_period, rush_hour_period, late_period,
                   avg_prob_early, avg_prob_rush_hour, avg_prob_late, chart,
                   html_content, html_file, disk, stdout, exportAttempted, exc>>

\* lines 15-17, mean() raises TypeError at the first period whose selection
\* holds text; the means of the periods before it are already assigned
AggregateFail ==
    /\ pc = "aggregate"
    /\ csv.cols = Columns
    /\ \E period \in {early_period, rush_hour_period, late_period} :
          TextIn(df, period)
    /\ Abort(AggregateError(df, "TypeError"))
    /\ IF TextIn(df, early_period)
       THEN UNCHANGED <<avg_prob_early, avg_prob_rush_hour>>
       ELSE /\ avg_prob_early' = GroupMean(df, early_period)
            /\ IF TextIn(df, rush_hour_period)
               THEN UNCHANGED avg_prob_rush_hour
               ELSE avg_prob_rush_hour' = GroupMean(df, rush_hour_period)
    /\ UNCHANGED <<csv, df, early_period, rush_hour_period, late_period,
                   avg_prob_late, chart, html_content, html_file, disk, stdout,
                   exportAttempted, exc>>

\* AggregateFailDtype with the exception swallowed: the script goes on.
AggregateFailSwallowed ==
    /\ pc = "aggregate"
    /\ csv.cols = Columns
    /\ ObjectColumn(df)
    /\ err' = <<AggregateError(df, "DataError")>>
    /\ pc' = "plot"
    /\ UNCHANGED <<csv, df, early_period, rush_hour_period, late_period,
                   avg_prob_early, avg_prob_rush_hour, avg_prob_late, chart,
                   html_content, html_file, disk, stdout, exportAttempted, exc>>

\* line 15, older pandas: mean() raises DataError for the object dtype of
\* the column, whatever the selection holds
AggregateFailDtype ==
    /\ pc = "aggregate"
    /\ csv.cols = Columns
    /\ ObjectColumn(df)
    /\ Abort(AggregateError(df, "DataError"))
    /\ UNCHANGED <<csv, df, early_period, rush_hour_period, late_period,
                   avg_prob_early, avg_prob_rush_hour, avg_prob_late, chart,
                   html_content, html_file, disk, stdout, exportAttempted, exc>>

\* lines 20-33, savefig succeeds
PlotStage ==
    /\ pc = "plot"
    /\ chart' = Plot(df)
    /\ disk' = disk \cup {PlotFile}
    /\ pc' = "render"
    /\ UNCHANGED <<csv, df, early_period, rush_hour_period, late_period,
                   avg_prob_early, avg_prob_rush_hour, avg_prob_late,
                   html_content, html_file, stdout, exportAttempted, exc, err>>

\* lines 20-32, savefig raises (the image cannot be written)
PlotFail ==
    /\ pc = "plot"
    /\ chart' = Plot(df)
    /\ Abort([stage |-> "plot", kind |-> "OSError", hasRow |-> FALSE, row |-> 0])
    /\ UNCHANGED <<csv, df, early_period, rush_hour_period, late_period,
                   avg_prob_early, avg_prob_rush_hour, avg_prob_late,
                   html_content, html_file, disk, stdout, exportAttempted, exc>>

\* lines 36-98
RenderStage ==
    /\ pc = "render"
    /\ html_content' = <<Render(avg_prob_early, avg_prob_rush_hour,
                                avg_prob_late, AbsPath(PlotFile))>>
    /\ pc' = "write"
    /\ UNCHANGED <<csv, df, early_period, rush_hour_period, late_period,
                   avg_prob_early, avg_prob_rush_hour, avg_prob_late, chart,
                   html_file, disk, stdout, exportAttempted, exc, err>>

\* lines 100-101
WriteHtml ==
    /\ pc = "write"
    /\ html_file' = html_content
    /\ disk' = disk \cup {HtmlFile}
    /\ pc' = "export"
    /\ UNCHANGED <<csv, df, early_period, rush_hour_period, late_period,
                   avg_prob_early, avg_prob_rush_hour, avg_prob_late, chart,
                   html_content, stdout, exportAttempted, exc, err>>

\* lines 108-110
ExportOk ==
    /\ pc = "export"
    /\ exportAttempted' = TRUE
    /\ disk' = disk \cup {PdfFile}
    /\ stdout' = Append(stdout, [msg |-> "PDF report generated successfully!",
                                 cause |-> ""])
    /\ pc' = "done"
    /\ UNCHANGED <<csv, df, early_period, rush_hour_period, late_period,
                   avg_prob_early, avg_prob_rush_hour, avg_prob_late, chart,
                   html_content, html_file, exc, err>>

\* ExportFail without the try/except: the exception ends the run.
ExportFailUncaught ==
    /\ pc = "export"
    /\ exportAttempted' = TRUE
    /\ \E e \in ExportCauses : exc' = <<e>>
    /\ Abort([stage |-> "export", kind |-> "OSError", hasRow |-> FALSE, row |-> 0])
    /\ UNCHANGED <<csv, df, early_period, rush_hour_period, late_period,
                   avg_prob_early, avg_prob_rush_hour, avg_prob_late, chart,
                   html_content, html_file, disk, stdout>>

\* lines 108-112, from_file raises e; wkhtmltopdf may or may not have left
\* a PDF behind
ExportFail ==
    /\ pc = "export"
    /\ exportAttempted' = TRUE
    /\ \E e \in ExportCauses :
          /\ exc' = <<e>>
          /\ stdout' = Append(stdout, [msg |-> "Error generating PDF: ", cause |-> e])
    /\ \E left \in BOOLEAN :
          disk' = IF left THEN disk \cup {PdfFile} ELSE disk
    /\ pc' = "done"
    /\ UNCHANGED <<csv, df, early_period, rush_hour_period, late_period,
                   avg_prob_early, avg_prob_rush_hour, avg_prob_late, chart,
                   html_content, html_file, err>>

Next ==
    \/ Load
    \/ LoadFail
    \/ Select
    \/ SelectKeyError
    \/ Aggregate
    \/ AggregateKeyError
    \/ AggregateFail
    \/ AggregateFailDtype
    \/ PlotStage
    \/ PlotFail
    \/ RenderStage
    \/ WriteHtml
    \/ ExportOk
    \/ ExportFail

Spec == Init /\ [][Next]_vars

----------------------------------------------------------------------------
(* Properties                                                              *)

PeriodNames == {"Early", "RushHour", "Late"}

KnownStates == {"Light", "Heavy", "Gridlock"}

\* The intervals as the specification states them.
InPeriod(P, time) ==
    CASE P = "Early" -> time >= 8 /\ time < 16
      [] P = "RushHour" -> time >= 16 /\ time < 18
      [] P = "Late" -> time >= 18 /\ time <= 20

Selection(P) ==
    CASE P = "Early" -> early_period
      [] P = "RushHour" -> rush_hour_period
      [] P = "Late" -> late_period

Result(P) ==
    CASE P = "Early" -> avg_prob_early
      [] P = "RushHour" -> avg_prob_rush_hour
      [] P = "Late" -> avg_prob_late

InSeq(x, seq) == \E j \in 1..Len(seq) : seq[j] = x

\* Lines 11-13 have run.
Selected ==
    /\ pc \notin {"load", "select"}
    /\ pc = "aborted" => err[1].stage \notin {"load", "select"}

\* Lines 15-17 have run to the end.
Aggregated ==
    /\ pc \notin {"load", "select", "aggregate"}
    /\ pc = "aborted" => err[1].stage = "plot"

\* The loop of lines 21-23 has run.
Plotted == Aggregated /\ pc # "plot"

Rendered == html_content # <<>>

MatchRows(P, S) ==
    {i \in 1..Len(df) : InPeriod(P, df[i].Time) /\ df[i].State = S}

Numeric(rows) == {i \in rows : df[i].Probability.tag = "float"}

RECURSIVE DenProd(_)
DenProd(rows) ==
    IF rows = {} THEN 1
    ELSE LET i == CHOOSE i \in rows : TRUE
         IN  df[i].Probability.den * DenProd(rows \ {i})

RECURSIVE NumSum(_, _)
NumSum(rows, D) ==
    IF rows = {} THEN 0
    ELSE LET i == CHOOSE i \in rows : TRUE
         IN  df[i].Probability.num * (D \div df[i].Probability.den)
               + NumSum(rows \ {i}, D)

\* v = (sum of the Probability of rows) / count
IsSumOver(v, rows, count) ==
    /\ v.tag = "float"
    /\ v.den > 0
    /\ v.num * DenProd(rows) * count = v.den * NumSum(rows, DenProd(rows))

\* C1 as stated: the entry for (P, S) is the sum of Probability over the
\* rows of S in P divided by the number of those rows, and is absent when
\* there is no such row.
C1_MeanOverAllRows ==
    Aggregated =>
        \A P \in PeriodNames, S \in States :
            LET rows == MatchRows(P, S)
            IN  IF rows = {} THEN S \notin DOMAIN Result(P)
                ELSE /\ S \in DOMAIN Result(P)
                     /\ IsSumOver(Result(P)[S], Numeric(rows), Cardinality(rows))

\* C1 amended: the entry for (P, S) is the sum of the Probability values
\* present in the rows of S in P divided by the number of rows that have
\* one, 0 when every such row lacks its Probability, and absent when there
\* is no such row.
C1_MeanOverPresentValues ==
    Aggregated =>
        \A P \in PeriodNames, S \in States :
            LET rows == MatchRows(P, S)
                num == Numeric(rows)
            IN  IF rows = {} THEN S \notin DOMAIN Result(P)
                ELSE /\ S \in DOMAIN Result(P)
                     /\ IF num = {} THEN Result(P)[S] = Zero
                        ELSE IsSumOver(Result(P)[S], num, Cardinality(num))

C1_Witness ==
    /\ Aggregated
    /\ \E P \in PeriodNames, S \in States :
          /\ Cardinality(MatchRows(P, S)) = 2
          /\ Cardinality(Numeric(MatchRows(P, S))) = 1

\* C2: a row with Time = 16 is selected into the rush-hour period and not
\* into the early one; a row with Time = 20 is selected into the late period.
C2_Boundaries ==
    Selected =>
        \A i \in 1..Len(df) :
            /\ df[i].Time = 16 =>
                  InSeq(i, rush_hour_period) /\ ~InSeq(i, early_period)
            /\ df[i].Time = 20 => InSeq(i, late_period)

C2_Witness ==
    /\ Selected
    /\ \E i, j \in 1..Len(df) : df[i].Time = 16 /\ df[j].Time = 20

\* C3: when the export raises, the chart and the complete HTML report are
\* already written and nothing has been printed; the exception is caught,
\* the one message printed is the error message with its cause, and the
\* run ends normally with both files still there.
C3_StateAfter ==
    exc # <<>> =>
        /\ pc = "done"
        /\ err = <<>>
        /\ {PlotFile, HtmlFile} \subseteq disk
        /\ html_file # <<>>
        /\ html_file = html_content
        /\ stdout = <<[msg |-> "Error generating PDF: ", cause |-> exc[1]]>>

C3_StateBefore ==
    exc' # exc =>
        /\ {PlotFile, HtmlFile} \subseteq disk
        /\ html_file # <<>>
        /\ html_file = html_content
        /\ stdout = <<>>

C3_ExportFailureTolerated == [](C3_StateAfter) /\ [][C3_StateBefore]_vars

C3_Witness == exc # <<>> /\ pc = "done"

\* C4: each of the nine values handed to the template is the period's mean
\* for the state when the period has an entry for it and 0 otherwise; for an
\* empty dataset the three results are empty and the nine values are 0.
C4_Value(key, series) == IF key \in DOMAIN series THEN series[key] ELSE Zero

C4_NineValues ==
    Rendered =>
        /\ html_content[1].early.light = C4_Value("Light", avg_prob_early)
        /\ html_content[1].early.heavy = C4_Value("Heavy", avg_prob_early)
        /\ html_content[1].early.gridlock = C4_Value("Gridlock", avg_prob_early)
        /\ html_content[1].rush_hour.light = C4_Value("Light", avg_prob_rush_hour)
        /\ html_content[1].rush_hour.heavy = C4_Value("Heavy", avg_prob_rush_hour)
        /\ html_content[1].rush_hour.gridlock
              = C4_Value("Gridlock", avg_prob_rush_hour)
        /\ html_content[1].late.light = C4_Value("Light", avg_prob_late)
        /\ html_content[1].late.heavy = C4_Value("Heavy", avg_prob_late)
        /\ html_content[1].late.gridlock = C4_Value("Gridlock", avg_prob_late)
        /\ df = <<>> =>
              /\ \A P \in PeriodNames : DOMAIN Result(P) = {}
              /\ \A P \in {"early", "rush_hour", "late"} :
                    \A S \in {"light", "heavy", "gridlock"} :
                        html_content[1][P][S] = Zero

C4_Witness ==
    /\ Rendered
    /\ "Light" \in DOMAIN avg_prob_rush_hour
    /\ avg_prob_rush_hour["Light"] # Zero
    /\ "Gridlock" \notin DOMAIN avg_prob_rush_hour
    /\ DOMAIN avg_prob_late = {}

\* C5: a failure at the load, selection, aggregation or chart stage ends the
\* run there: no HTML report is written, no export is attempted, and before
\* the chart stage no image is written either.
C5_StateAfter ==
    err # <<>> =>
        /\ pc = "aborted"
        /\ html_content = <<>>
        /\ html_file = <<>>
        /\ HtmlFile \notin disk
        /\ ~exportAttempted
        /\ PdfFile \notin disk
        /\ err[1].stage \in {"load", "select", "aggregate"} => disk = {}

C5_FailureAborts == [](C5_StateAfter) /\ [][pc # "aborted"]_vars

C5_Witness ==
    /\ pc = "aborted"
    /\ err[1].stage = "aggregate"
    /\ ObjectColumn(df)

C7_OneSortedLinePerState ==
    Plotted =>
        /\ Len(chart) = Cardinality({df[i].State : i \in 1..Len(df)})
        /\ {chart[k].label : k \in 1..Len(chart)}
              = {df[i].State : i \in 1..Len(df)}
        /\ \A k \in 1..Len(chart) :
              \A a, b \in 1..Len(chart[k].x) :
                  a < b => chart[k].x[a] <= chart[k].x[b]

\* C8: the three results the aggregation step produces are the same for
\* every permutation of the rows of the input.
Permuted(rows, p) == [i \in 1..Len(rows) |-> rows[p[i]]]

C8_SameForPermutations ==
    (pc = "aggregate" /\ pc' = "plot") =>
        \A p \in Permutations(DOMAIN csv.rows) :
            LET t == ReadCsv(Permuted(csv.rows, p))
            IN  /\ GroupMean(t, EarlyPeriod(t)) = avg_prob_early'
                /\ GroupMean(t, RushHourPeriod(t)) = avg_prob_rush_hour'
                /\ GroupMean(t, LatePeriod(t)) = avg_prob_late'

C8_OrderIndependent == [][C8_SameForPermutations]_vars

C8_Witness ==
    /\ Aggregated
    /\ \E P \in PeriodNames, S \in States :
          /\ MatchRows(P, S) = {1, 2}
          /\ Numeric(MatchRows(P, S)) = {1, 2}
          /\ df[1].Probability # df[2].Probability

\* C9: a row with 8 <= Time <= 20 is in exactly one of the three selections,
\* a row with Time < 8 or Time > 20 is in none, and leaving the latter rows
\* out of the dataset changes no result.
C9_InRange(time) == time >= 8 /\ time <= 20

C9_Partition ==
    /\ Selected =>
          \A i \in 1..Len(df) :
              Cardinality({P \in PeriodNames : InSeq(i, Selection(P))})
                  = IF C9_InRange(df[i].Time) THEN 1 ELSE 0
    /\ Aggregated =>
          LET t == SelectSeq(df, LAMBDA r : C9_InRange(r.Time))
          IN  /\ GroupMean(t, EarlyPeriod(t)) = avg_prob_early
              /\ GroupMean(t, RushHourPeriod(t)) = avg_prob_rush_hour
              /\ GroupMean(t, LatePeriod(t)) = avg_prob_late

C9_Witness ==
    /\ Aggregated
    /\ \E i, j \in 1..Len(df) :
          /\ df[i].Time \in {7, 21}
          /\ df[j].Time = 18
          /\ df[i].State = df[j].State
          /\ df[i].Probability.tag = "float"

\* C10: whenever a report is rendered, its nine values are those of the
\* input with every row whose State is not Light, Heavy or Gridlock removed.
C10_Known(rows) == SelectSeq(rows, LAMBDA r : r.State \in KnownStates)

====
